---- MODULE Spec2Model ----
(***************************************************************************)
(* Model of the insight-letter core of the REFLECT backend:                *)
(*   - the 5-day period arithmetic of backend/server.py,                   *)
(*   - the weekly_insights table operations of backend/supabase_client.py, *)
(*   - the request handlers insights_letter / insights_generate_letter.    *)
(* Dates are day ordinals counted from January 1 of BaseYear; an ISO date  *)
(* string YYYY-MM-DD is the tuple <<year, month, day>>.                    *)
(***************************************************************************)
EXTENDS Integers, Sequences, FiniteSets, Bags, TLC

\* ------------------------------------------------------------------------
\* Bounds of the model
\* ------------------------------------------------------------------------
BaseYear == 2023
NumYears == 4

VARIABLES
    today,      \* the server's calendar date, date.today()
    pcur,       \* last result of _current_5day_period()
    plast,      \* last result of _last_completed_5day_period()
    store,      \* the weekly_insights table: a bag of rows
    entries,    \* the saved_reflections table: user -> rows, created_at DESC
    proc,       \* the request each worker is handling, and where it stands
    origin,     \* history: for each stored row, the letter its writer answered with
    run         \* history: the analysis run observed in isolation, see SpecAnalyze

vars == <<today, pcur, plast, store, entries, proc, origin, run>>

\* ------------------------------------------------------------------------
\* The proleptic Gregorian calendar of datetime.date
\* ------------------------------------------------------------------------
IsLeap(y) == (y % 4 = 0) /\ ((y % 100 # 0) \/ (y % 400 = 0))

DaysInYear(y) == IF IsLeap(y) THEN 366 ELSE 365

DaysInMonth(y, m) ==
    IF m = 2 THEN (IF IsLeap(y) THEN 29 ELSE 28)
    ELSE IF m \in {4, 6, 9, 11} THEN 30 ELSE 31

\* date(y, 1, 1) as a day ordinal (0 is January 1 of BaseYear)
RECURSIVE Jan1(_)
Jan1(y) ==
    IF y = BaseYear THEN 0
    ELSE IF y > BaseYear THEN Jan1(y - 1) + DaysInYear(y - 1)
    ELSE Jan1(y + 1) - DaysInYear(y)

\* date.year of a day ordinal
RECURSIVE YearFrom(_, _)
YearFrom(d, y) ==
    IF d < Jan1(y) THEN YearFrom(d, y - 1)
    ELSE IF d >= Jan1(y + 1) THEN YearFrom(d, y + 1)
    ELSE y

YearOf(d) == YearFrom(d, BaseYear)

\* month and day of the k-th day (0-based) of year y, searching from month m
RECURSIVE MonthDay(_, _, _)
MonthDay(y, m, k) ==
    IF k < DaysInMonth(y, m) THEN <<m, k + 1>>
    ELSE MonthDay(y, m + 1, k - DaysInMonth(y, m))

\* date.isoformat(): "YYYY-MM-DD" as <<year, month, day>>
isoformat(d) ==
    LET y  == YearOf(d)
        md == MonthDay(y, 1, d - Jan1(y))
    IN  <<y, md[1], md[2]>>

RECURSIVE DaysBeforeMonth(_, _)
DaysBeforeMonth(y, m) ==
    IF m = 1 THEN 0 ELSE DaysBeforeMonth(y, m - 1) + DaysInMonth(y, m - 1)

\* date.fromisoformat(): the day ordinal of an ISO date
fromisoformat(s) == Jan1(s[1]) + DaysBeforeMonth(s[1], s[2]) + (s[3] - 1)

\* Python's max(0, x)
Max(a, b) == IF a >= b THEN a ELSE b

\* str <= str on ISO dates: lexicographic, i.e. field by field
IsoLeq(a, b) ==
    \/ a[1] < b[1]
    \/ a[1] = b[1] /\ a[2] < b[2]
    \/ a[1] = b[1] /\ a[2] = b[2] /\ a[3] <= b[3]

\* ------------------------------------------------------------------------
\* Period Bucketer (server.py)
\* ------------------------------------------------------------------------
PeriodLen == 5

NoPeriod == [none |-> TRUE]

\* a period clipped at December 31 of its year
current_5day_period_clipped(t) ==
    LET days_since_anchor   == t - Jan1(YearOf(t))
        period_start_offset == (days_since_anchor \div PeriodLen) * PeriodLen
        period_start        == Jan1(YearOf(t)) + period_start_offset
        year_end            == Jan1(YearOf(t) + 1) - 1
        period_end          == IF period_start + 4 > year_end
                               THEN year_end ELSE period_start + 4
        is_complete         == t > period_end
    IN  [ period_start   |-> isoformat(period_start),
          period_end     |-> isoformat(period_end),
          is_complete    |-> is_complete,
          days_remaining |-> IF ~is_complete
                             THEN Max(0, (period_end - t) + 1) ELSE 0 ]

\* a period whose end is one day early
current_5day_period_short(t) ==
    LET days_since_anchor   == t - Jan1(YearOf(t))
        period_start_offset == (days_since_anchor \div PeriodLen) * PeriodLen
        period_start        == Jan1(YearOf(t)) + period_start_offset
        period_end          == period_start + 3
        is_complete         == t > period_end
    IN  [ period_start   |-> isoformat(period_start),
          period_end     |-> isoformat(period_end),
          is_complete    |-> is_complete,
          days_remaining |-> IF ~is_complete
                             THEN Max(0, (period_end - t) + 1) ELSE 0 ]

\* _current_5day_period(): (period_start, period_end, is_complete, days_remaining)
current_5day_period(t) ==
    LET days_since_anchor   == t - Jan1(YearOf(t))
        period_start_offset == (days_since_anchor \div PeriodLen) * PeriodLen
        period_start        == Jan1(YearOf(t)) + period_start_offset
        period_end          == period_start + 4
        is_complete         == t > period_end
    IN  [ period_start   |-> isoformat(period_start),
          period_end     |-> isoformat(period_end),
          is_complete    |-> is_complete,
          days_remaining |-> IF ~is_complete
                             THEN Max(0, (period_end - t) + 1) ELSE 0 ]

\* _last_completed_5day_period(): (period_start, period_end)
last_completed_5day_period(t) ==
    LET year                        == YearOf(t)
        days_since_anchor           == t - Jan1(year)
        current_period_start_offset == (days_since_anchor \div PeriodLen) * PeriodLen
        last_period_start_offset    == current_period_start_offset - PeriodLen
        last_year                   == year - 1
        days_in_last_year           == Jan1(year) - Jan1(last_year)
        period_start ==
            IF last_period_start_offset < 0
            THEN Jan1(last_year) + ((days_in_last_year - 1) \div PeriodLen) * PeriodLen
            ELSE Jan1(year) + last_period_start_offset
        period_end == period_start + 4
    IN  [ period_start |-> isoformat(period_start),
          period_end   |-> isoformat(period_end) ]

\* ------------------------------------------------------------------------
\* Text.  A str is the sequence of its lines (joined by "\n"); a line is
\* [k, n, s]: its kind, its length in characters and the text it is a
\* prefix of.  Kinds: "text" (starts and ends with a non-blank character),
\* "blank" (whitespace only, n may be 0), "fence" (starts with ```; n = 3
\* is a bare ```), "greet" (starts with dear / hi / hello / hey).
\* The empty str is <<>>.
\* ------------------------------------------------------------------------
Line(k, n, s) == [k |-> k, n |-> n, s |-> s]

Str(n, s) == <<Line("text", n, s)>>

EmptyStr == <<>>

\* len(str)
RECURSIVE len(_)
len(t) ==
    IF t = <<>> THEN 0
    ELSE IF Len(t) = 1 THEN t[1].n
    ELSE t[1].n + 1 + len(Tail(t))

RECURSIVE lstrip(_)
lstrip(t) ==
    IF t = <<>> THEN <<>>
    ELSE IF t[1].k = "blank" THEN lstrip(Tail(t))
    ELSE t

RECURSIVE rstrip(_)
rstrip(t) ==
    IF t = <<>> THEN <<>>
    ELSE IF t[Len(t)].k = "blank" THEN rstrip(SubSeq(t, 1, Len(t) - 1))
    ELSE t

\* str.strip()
strip(t) == rstrip(lstrip(t))

\* the first c characters of one line
CutLine(l, c) ==
    IF c >= l.n THEN l
    ELSE IF c = 0 THEN Line("blank", 0, l.s)
    ELSE IF l.k = "greet" /\ c < 4 THEN Line("text", c, l.s)
    ELSE IF l.k = "fence" /\ c < 3 THEN Line("text", c, l.s)
    ELSE Line(l.k, c, l.s)

\* str[:c] for c >= 1 on a str of at least one line
RECURSIVE Prefix(_, _)
Prefix(t, c) ==
    IF Len(t) = 1 \/ t[1].n >= c THEN <<CutLine(t[1], c)>>
    ELSE IF c = t[1].n + 1 THEN <<t[1], Line("blank", 0, t[2].s)>>
    ELSE <<t[1]>> \o Prefix(Tail(t), c - t[1].n - 1)

\* str[:c]
Slice(t, c) == IF t = <<>> \/ c = 0 THEN <<>> ELSE Prefix(t, c)

\* Optional values: None, or a value
None == [some |-> FALSE, v |-> <<>>]
Some(x) == [some |-> TRUE, v |-> x]

\* ------------------------------------------------------------------------
\* The weekly_insights table (supabase_client.py).  A row is
\* [user_id, week_start, content]; the table is a bag of rows.
\* ------------------------------------------------------------------------
ContentCap == 10000

Row(u, ws, c) == [user_id |-> u, week_start |-> ws, content |-> c]

RowsOf(tbl, u, ws) ==
    {r \in BagToSet(tbl) : r.user_id = u /\ r.week_start = ws}

\* number of rows of the table under the key (user_id, week_start)
RECURSIVE SumCopies(_, _)
SumCopies(tbl, rows) ==
    IF rows = {} THEN 0
    ELSE LET r == CHOOSE x \in rows : TRUE
         IN  CopiesIn(r, tbl) + SumCopies(tbl, rows \ {r})

RowCount(tbl, u, ws) == SumCopies(tbl, RowsOf(tbl, u, ws))

\* _validate_week_start: ^\d{4}-\d{2}-\d{2}$
validate_week_start(ws) ==
    /\ Len(ws) = 3
    /\ ws[1] \in 0 .. 9999
    /\ ws[2] \in 0 .. 99
    /\ ws[3] \in 0 .. 99

\* the table's INSERT without its UNIQUE(user_id, week_start) constraint
table_insert_no_unique(tbl, row) ==
    [ok |-> TRUE, tbl |-> tbl (+) SetToBag({row})]

\* the table's INSERT: rejected when the key (user_id, week_start) is taken
table_insert(tbl, row) ==
    IF RowCount(tbl, row.user_id, row.week_start) > 0
    THEN [ok |-> FALSE, tbl |-> tbl]
    ELSE [ok |-> TRUE, tbl |-> tbl (+) SetToBag({row})]

\* a lookup that never finds a row
get_weekly_insight_by_week_miss(tbl, u, ws) == {None}

\* get_weekly_insight_by_week: the rows .limit(1) may return; None if none
get_weekly_insight_by_week(tbl, u, ws) ==
    IF ~validate_week_start(ws) \/ RowsOf(tbl, u, ws) = {}
    THEN {None}
    ELSE {Some(r) : r \in RowsOf(tbl, u, ws)}

\* insert_weekly_insight: [id, tbl]; id is None when nothing was inserted
\* (empty content, bad key, or the insert raised and was logged)
insert_weekly_insight(tbl, u, ws, content) ==
    IF content = EmptyStr \/ ~validate_week_start(ws)
    THEN [id |-> FALSE, tbl |-> tbl]
    ELSE LET r == table_insert(tbl, Row(u, ws, Slice(strip(content), ContentCap)))
         IN  [id |-> r.ok, tbl |-> r.tbl]

\* delete_weekly_insight: every row of the key is removed
delete_weekly_insight(tbl, u, ws) ==
    IF ~validate_week_start(ws) THEN tbl
    ELSE LET keep == {r \in BagToSet(tbl) : ~(r.user_id = u /\ r.week_start = ws)}
         IN  [r \in keep |-> tbl[r]]

\* existing and (existing.get("content") or "").strip()
HasLetter(existing) == existing.some /\ strip(existing.v.content) # EmptyStr

\* ------------------------------------------------------------------------
\* The saved_reflections table (supabase_client.py).  A timestamp is
\* <<day ordinal, time of day>>; time of day 0 is 00:00:00.  created_at is
\* a UTC timestamp and the server's date.today() is taken in UTC.
\* ------------------------------------------------------------------------
TimesOfDay == {0, 1}

Entry(d, t) == [created_at |-> <<d, t>>]

TsGeq(a, b) == a[1] > b[1] \/ (a[1] = b[1] /\ a[2] >= b[2])

\* list_saved_reflections_since: rows with created_at >= since, newest first
list_saved_reflections_since(tbl, u, since) ==
    SelectSeq(tbl[u], LAMBDA r : TsGeq(r.created_at, since))

\* r.get("created_at", "")[:10] <= last_period_end
InPeriodEnd(r, period_end) == IsoLeq(isoformat(r.created_at[1]), period_end)

\* the rows since the start of the period, whatever their date
period_reflections_open(tbl, u, period_start, period_end) ==
    list_saved_reflections_since(tbl, u, <<fromisoformat(period_start), 0>>)

\* server.py: the rows of the last completed period
period_reflections(tbl, u, period_start, period_end) ==
    SelectSeq(list_saved_reflections_since(tbl, u, <<fromisoformat(period_start), 0>>),
              LAMBDA r : InPeriodEnd(r, period_end))

LookbackDays == 30

\* ------------------------------------------------------------------------
\* Pattern analyzer (pattern_analyzer.py) and the single-shot insight
\* letter (ollama_client.py / openrouter_client.py)
\* ------------------------------------------------------------------------
Min(a, b) == IF a <= b THEN a ELSE b

\* a message in two tiers only: none, or some
gentle_insufficient_data_message_two_tiers(count) ==
    IF count = 0 THEN <<Line("text", 90, "You haven't reflected yet this period.")>>
    ELSE <<Line("text", 83, "You reflected once recently.")>>

\* _gentle_insufficient_data_message(count)
gentle_insufficient_data_message(count) ==
    IF count = 0 THEN Str(90, "You haven't reflected yet this period.")
    ELSE IF count = 1 THEN Str(83, "You reflected once recently.")
    ELSE Str(77, "You've started to show up.")

INSIGHT_LETTER_FALLBACK == Str(68, "These past few days you showed up to reflect.")

\* lines[0].strip().lower().startswith(('dear', 'hi ', 'hello', 'hey'))
StartsWithGreeting(t) == t # <<>> /\ t[1].k = "greet"

\* the removal of a Markdown code block around the text
StripCodeFence(t) ==
    IF t # <<>> /\ t[1].k = "fence"
    THEN strip(IF t[Len(t)].k = "fence" /\ t[Len(t)].n = 3
               THEN SubSeq(t, 2, Len(t) - 1)
               ELSE Tail(t))
    ELSE t

\* a cleaning that strips the code fence and keeps the greeting line
clean_letter_keeping_greeting(letter) ==
    IF letter = EmptyStr THEN EmptyStr
    ELSE StripCodeFence(strip(letter))

\* _clean_letter(letter)
clean_letter(letter) ==
    IF letter = EmptyStr THEN EmptyStr
    ELSE LET unfenced == StripCodeFence(strip(letter))
         IN  IF StartsWithGreeting(unfenced) THEN strip(Tail(unfenced))
             ELSE unfenced

\* A chat outcome: the call raised, or returned a value
Raised == [raised |-> TRUE, v |-> <<>>]
Returned(x) == [raised |-> FALSE, v |-> x]

InsightMinLen == 200
InsightMaxLen == 1200

\* an insight letter returned whatever its length
get_insight_letter_unchecked(outcome) ==
    IF outcome.raised THEN INSIGHT_LETTER_FALLBACK
    ELSE LET out0 == strip(outcome.v)
         IN  IF StartsWithGreeting(out0) THEN strip(Tail(out0)) ELSE out0

\* get_insight_letter(summary), given the outcome of its _chat call
get_insight_letter(outcome) ==
    IF outcome.raised THEN INSIGHT_LETTER_FALLBACK
    ELSE LET out0 == strip(outcome.v)
             out  == IF StartsWithGreeting(out0) THEN strip(Tail(out0)) ELSE out0
         IN  IF out # EmptyStr /\ InsightMinLen < len(out) /\ len(out) < InsightMaxLen
             THEN out ELSE INSIGHT_LETTER_FALLBACK

\* A raw Stage 1 response: [brackets, json].  brackets tells whether the
\* text has a "[" and a later "]"; json is what json.loads makes of the
\* text between them: [t |-> "invalid"] (json.JSONDecodeError),
\* [t |-> "too_deep"] (arrays nested beyond the interpreter's recursion
\* limit: RecursionError), [t |-> "object"] or
\* [t |-> "list", items |-> <<item, ...>>].  An item is [dict, f]: f maps
\* the keys of a JSON object to string values [n, s] (length, text).
Val(n, s) == [n |-> n, s |-> s]

NoVal == Val(0, "")

SituationCap == 500
EmotionCap == 200
BehaviorCap == 300
SelfJudgmentCap == 200

\* item.get(key, default)
ItemGet(item, key, default) ==
    IF key \in DOMAIN item.f THEN item.f[key] ELSE default

\* str(x)[:cap]
Capped(v, cap) == Val(Min(v.n, cap), v.s)

ValidSituation(item) ==
    [ situation     |-> Capped(ItemGet(item, "situation", NoVal), SituationCap),
      emotion       |-> Capped(ItemGet(item, "emotion",
                                       ItemGet(item, "feeling", NoVal)), EmotionCap),
      behavior      |-> Capped(ItemGet(item, "behavior", NoVal), BehaviorCap),
      self_judgment |-> Capped(ItemGet(item, "self_judgment",
                                       ItemGet(item, "self_doubt", NoVal)), SelfJudgmentCap) ]

RECURSIVE ValidItems(_)
ValidItems(items) ==
    IF items = <<>> THEN <<>>
    ELSE LET item == items[1]
         IN  (IF item.dict /\ ItemGet(item, "situation", NoVal).n > 0
              THEN <<ValidSituation(item)>> ELSE <<>>) \o ValidItems(Tail(items))

\* parse_situations_response(raw_response) raises: json.loads raised an
\* exception that is not a json.JSONDecodeError
parse_situations_raises(raw) ==
    ~raw.empty /\ raw.brackets /\ raw.json.t = "too_deep"

\* parse_situations_response(raw_response), where it returns
parse_situations_response(raw) ==
    IF raw.empty THEN <<>>
    ELSE IF ~raw.brackets THEN <<>>
    ELSE IF raw.json.t = "list" THEN ValidItems(raw.json.items)
    ELSE <<>>

MinSituations == 2
MinPatternLen == 50
MinLetterLen == 100

\* ------------------------------------------------------------------------
\* The Language Model Gateway: what a chat call may answer in each stage
\* ------------------------------------------------------------------------
Item(fields) == [dict |-> TRUE, f |-> fields]

SituationItem(s) ==
    Item([k \in {"situation", "emotion", "behavior", "self_judgment"} |->
             IF k = "situation" THEN Val(40, s) ELSE Val(20, k)])

RawList(items) ==
    [empty |-> FALSE, brackets |-> TRUE, json |-> [t |-> "list", items |-> items]]

SituationReplies ==
    { RawList(<<SituationItem("work"), SituationItem("home")>>),
      RawList(<<SituationItem("work")>>) }

PatternReplies == { Str(120, "pattern"), Str(20, "pattern") }

LetterReplies ==
    { Str(600, "letter"),
      Str(40, "letter"),
      <<Line("text", ContentCap - 1, "long letter"), Line("text", 400, "its second line")>> }

InsightReplies == { Str(600, "insight"), Str(100, "insight") }

ChatOutcomes(replies) == {Raised} \cup {Returned(r) : r \in replies}

\* What a chat call may answer when one analysis run is observed in
\* isolation (SpecAnalyze): the replies above and the edge cases of every
\* gate of the pipeline.
EmptyRaw == [empty |-> TRUE, brackets |-> FALSE, json |-> [t |-> "invalid"]]

\* prose without a "[" ... "]"
NoBracketsRaw == [empty |-> FALSE, brackets |-> FALSE, json |-> [t |-> "invalid"]]

\* a bracketed text json.loads rejects
BadJsonRaw == [empty |-> FALSE, brackets |-> TRUE, json |-> [t |-> "invalid"]]

\* a bracketed text of arrays nested deeper than json.loads can follow
TooDeepRaw == [empty |-> FALSE, brackets |-> TRUE, json |-> [t |-> "too_deep"]]

\* a bracketed text that decodes to a JSON object
ObjectRaw == [empty |-> FALSE, brackets |-> TRUE, json |-> [t |-> "object"]]

\* a list element that is not a JSON object
NotADict == [dict |-> FALSE, f |-> <<>>]

\* an object whose "situation" is the empty string
BlankSituationItem ==
    Item([k \in {"situation", "emotion"} |->
             IF k = "situation" THEN NoVal ELSE Val(20, k)])

\* an object with the alias keys and values longer than the caps
AliasItem(s) ==
    Item([k \in {"situation", "feeling", "behavior", "self_doubt", "extra"} |->
             IF k = "situation" THEN Val(SituationCap + 100, s)
             ELSE Val(BehaviorCap + 50, k)])

AllSituationReplies ==
    SituationReplies \cup
    { EmptyRaw, NoBracketsRaw, BadJsonRaw, TooDeepRaw, ObjectRaw,
      RawList(<<>>),
      RawList(<<SituationItem("work"), NotADict, SituationItem("home")>>),
      RawList(<<SituationItem("work"), BlankSituationItem>>),
      RawList(<<AliasItem("work"), AliasItem("home")>>),
      RawList(<<SituationItem("work"), SituationItem("work again"),
                SituationItem("work late"), SituationItem("work deadline")>>) }

AllPatternReplies ==
    PatternReplies \cup
    { EmptyStr,
      Str(MinPatternLen - 1, "pattern"),
      Str(MinPatternLen, "pattern"),
      <<Line("blank", 2, ""), Line("text", MinPatternLen - 1, "pattern"),
        Line("blank", 0, "")>>,
      <<Line("greet", 12, "Dear friend,"), Line("text", 120, "pattern")>>,
      <<Line("fence", 3, "fence"), Line("text", 120, "pattern"),
        Line("fence", 3, "fence")>> }

AllLetterReplies ==
    { Str(600, "letter"), Str(40, "letter"),
      EmptyStr,
      Str(MinLetterLen - 1, "letter"),
      Str(MinLetterLen, "letter"),
      <<Line("greet", 12, "Dear friend,"), Line("text", 600, "letter")>>,
      <<Line("greet", 12, "Dear friend,"), Line("text", MinLetterLen - 5, "letter")>>,
      <<Line("fence", 7, "fence text"), Line("text", 300, "letter"),
        Line("fence", 3, "fence")>>,
      <<Line("greet", 12, "Dear friend,"), Line("greet", 10, "Hello you,"),
        Line("text", 600, "letter")>>,
      <<Line("greet", 9, "Hi there,"), Line("blank", 0, ""),
        Line("greet", 4, "Hey,"), Line("text", 600, "letter")>>,
      <<Line("fence", 3, "fence"), Line("greet", 12, "Dear friend,"),
        Line("text", 300, "letter"), Line("fence", 3, "fence")>> }

AllInsightReplies ==
    InsightReplies \cup
    { EmptyStr,
      Str(InsightMinLen, "insight"),
      Str(InsightMinLen + 1, "insight"),
      Str(InsightMaxLen - 1, "insight"),
      Str(InsightMaxLen, "insight"),
      <<Line("greet", 9, "Hi there,"), Line("text", 600, "insight")>>,
      <<Line("fence", 3, "fence"), Line("text", 600, "insight"),
        Line("fence", 3, "fence")>> }

\* The analysis run observed in isolation: its arguments and what each
\* chat call of the run answered.  NoRun under the request handlers.
NoRun == [free |-> TRUE]

NotCalled == [called |-> FALSE]

Prompts == {"situations", "pattern", "letter", "insight"}

NewRun(n, min_reflections) ==
    [ free |-> FALSE, entries |-> n, min_reflections |-> min_reflections,
      chat |-> [p \in Prompts |-> NotCalled] ]

Called(outcome) == [called |-> TRUE, raised |-> outcome.raised, v |-> outcome.v]

\* llm_chat_fn(prompt, system) / _chat(prompt, system): the outcomes of one call
chat(prompt, replies, all_replies) ==
    IF run.free THEN ChatOutcomes(replies) ELSE ChatOutcomes(all_replies)

\* the run with the outcome of its call recorded
Logged(prompt, outcome) ==
    IF run.free THEN run ELSE [run EXCEPT !.chat[prompt] = Called(outcome)]

\* ------------------------------------------------------------------------
\* Requests (server.py).  Each worker handles one request at a time; a step
\* of a request runs up to and including its next call to the store or the
\* gateway.
\* ------------------------------------------------------------------------
Users == {"u1", "u2"}
Workers == {"w1", "w2"}

NoInt == [some |-> FALSE, v |-> 0]
SomeInt(n) == [some |-> TRUE, v |-> n]

NoResp == [status |-> 0]

InFlight == {"list", "recheck", "stage1", "stage2", "stage3", "shallow", "insert"}

Idle ==
    [ pc |-> "idle", kind |-> "none", uid |-> "", cur |-> NoPeriod, last |-> NoPeriod,
      reflections |-> <<>>, situations |-> <<>>, core_pattern |-> None,
      letter |-> EmptyStr, depth |-> "none", calls |-> <<>>, inserted |-> FALSE,
      resp |-> NoResp ]

\* a request that has answered: its locals are gone, the answer remains
Done(r, inserted, resp) ==
    [Idle EXCEPT !.pc = "done", !.kind = r.kind, !.uid = r.uid, !.last = r.last,
                 !.inserted = inserted, !.resp = resp]

\* the cached letter as the fast path returns it
CachedResponse(existing, last) ==
    [ status |-> 200,
      content |-> Some(strip(existing.v.content)),
      period_start |-> last.period_start,
      period_end |-> last.period_end,
      too_early |-> FALSE,
      days_remaining |-> NoInt,
      analysis_depth |-> "absent" ]

\* the answer to a user with no reflections in the lookback window
TooEarlyResponse(cur) ==
    [ status |-> 200,
      content |-> None,
      period_start |-> cur.period_start,
      period_end |-> cur.period_end,
      too_early |-> TRUE,
      days_remaining |-> SomeInt(cur.days_remaining),
      analysis_depth |-> "absent" ]

\* the answer that carries a generated letter
GeneratedResponse(r) ==
    [ status |-> 200,
      content |-> Some(r.letter),
      period_start |-> r.last.period_start,
      period_end |-> r.last.period_end,
      too_early |-> FALSE,
      days_remaining |-> NoInt,
      analysis_depth |-> r.depth ]

\* HTTPException(status_code=500)
ErrorResponse == [status |-> 500]

\* an entry-count gate that also stops a run with exactly the minimum
AnalysisGateInclusive(r, refl, min_reflections) ==
    IF Len(refl) <= min_reflections
    THEN [r EXCEPT !.pc = "insert", !.reflections = refl,
                   !.letter = gentle_insufficient_data_message(Len(refl)),
                   !.core_pattern = None, !.situations = <<>>,
                   !.depth = "insufficient"]
    ELSE [r EXCEPT !.pc = "stage1", !.reflections = refl]

\* analyze_patterns_deep_sync, up to its first gateway call: the
\* insufficient result, or on to Stage 1
AnalysisGate(r, refl, min_reflections) ==
    IF Len(refl) < min_reflections
    THEN [r EXCEPT !.pc = "insert", !.reflections = refl,
                   !.letter = gentle_insufficient_data_message(Len(refl)),
                   !.core_pattern = None, !.situations = <<>>,
                   !.depth = "insufficient"]
    ELSE [r EXCEPT !.pc = "stage1", !.reflections = refl]

MinReflectionsOrganic == 3
MinReflectionsForced == 2

\* _shallow_fallback_sync, before its gateway call
ToShallow(r) == [r EXCEPT !.pc = "shallow", !.situations = <<>>, !.core_pattern = None]

\* insights_letter: the periods, the first cache lookup, the fast path
StartLetter(w, u) ==
    /\ proc[w].pc = "idle"
    /\ LET cur  == current_5day_period(today)
           last == last_completed_5day_period(today)
       IN  \E existing \in get_weekly_insight_by_week(store, u, last.period_start) :
             proc' = [proc EXCEPT ![w] =
               IF HasLetter(existing)
               THEN Done([Idle EXCEPT !.kind = "letter", !.uid = u, !.last = last],
                         FALSE, CachedResponse(existing, last))
               ELSE [Idle EXCEPT !.pc = "list", !.kind = "letter", !.uid = u,
                                 !.cur = cur, !.last = last]]
    /\ UNCHANGED <<today, pcur, plast, store, entries, origin, run>>

\* a "too early" answer that reports the last completed period
ListReflectionsLastPeriod(w) ==
    /\ proc[w].pc = "list"
    /\ LET r    == proc[w]
           refl == period_reflections(entries, r.uid, r.last.period_start,
                                      r.last.period_end)
       IN  \E now \in TimesOfDay :
             LET all_reflections ==
                   list_saved_reflections_since(entries, r.uid,
                                                <<today - LookbackDays, now>>)
             IN  proc' = [proc EXCEPT ![w] =
                   IF all_reflections = <<>>
                   THEN Done(r, FALSE,
                             TooEarlyResponse([period_start |-> r.last.period_start,
                                               period_end |-> r.last.period_end,
                                               days_remaining |-> 0]))
                   ELSE [r EXCEPT !.pc = "recheck", !.reflections = refl]]
    /\ UNCHANGED <<today, pcur, plast, store, entries, origin, run>>

\* insights_letter: the reflections of the period and of the lookback
\* window; "too early" for a user without any
ListReflections(w) ==
    /\ proc[w].pc = "list"
    /\ LET r    == proc[w]
           refl == period_reflections(entries, r.uid, r.last.period_start,
                                      r.last.period_end)
       IN  \E now \in TimesOfDay :
             LET all_reflections ==
                   list_saved_reflections_since(entries, r.uid,
                                                <<today - LookbackDays, now>>)
             IN  proc' = [proc EXCEPT ![w] =
                   IF all_reflections = <<>>
                   THEN Done(r, FALSE, TooEarlyResponse(r.cur))
                   ELSE [r EXCEPT !.pc = "recheck", !.reflections = refl]]
    /\ UNCHANGED <<today, pcur, plast, store, entries, origin, run>>

\* a second lookup that reserves the key with a placeholder row
RecheckReserving(w) ==
    /\ proc[w].pc = "recheck"
    /\ LET r == proc[w]
       IN  \E existing \in get_weekly_insight_by_week(store, r.uid, r.last.period_start) :
             /\ proc' = [proc EXCEPT ![w] =
                   IF HasLetter(existing)
                   THEN Done(r, FALSE, CachedResponse(existing, r.last))
                   ELSE AnalysisGate(r, r.reflections, MinReflectionsOrganic)]
             /\ store' = IF HasLetter(existing) THEN store
                         ELSE table_insert(store, Row(r.uid, r.last.period_start,
                                                      Str(1, "."))).tbl
    /\ UNCHANGED <<today, pcur, plast, entries, origin, run>>

\* insights_letter: the second cache lookup, then the analysis begins
Recheck(w) ==
    /\ proc[w].pc = "recheck"
    /\ LET r == proc[w]
       IN  \E existing \in get_weekly_insight_by_week(store, r.uid, r.last.period_start) :
             proc' = [proc EXCEPT ![w] =
               IF HasLetter(existing)
               THEN Done(r, FALSE, CachedResponse(existing, r.last))
               ELSE AnalysisGate(r, r.reflections, MinReflectionsOrganic)]
    /\ UNCHANGED <<today, pcur, plast, store, entries, origin, run>>

\* a forced regeneration that keeps the organic minimum
StartGenerateOrganicMin(w, u) ==
    /\ proc[w].pc = "idle"
    /\ LET last == last_completed_5day_period(today)
           refl == period_reflections(entries, u, last.period_start, last.period_end)
       IN  /\ store' = delete_weekly_insight(store, u, last.period_start)
           /\ origin' = {o \in origin : ~(o.user_id = u /\ o.week_start = last.period_start)}
           /\ proc' = [proc EXCEPT ![w] =
                 AnalysisGate([Idle EXCEPT !.kind = "generate", !.uid = u,
                                           !.last = last],
                              refl, MinReflectionsOrganic)]
    /\ UNCHANGED <<today, pcur, plast, entries, run>>

\* insights_generate_letter: delete the stored letter, list the period's
\* reflections, then the analysis begins with the lower minimum
StartGenerate(w, u) ==
    /\ proc[w].pc = "idle"
    /\ LET last == last_completed_5day_period(today)
           refl == period_reflections(entries, u, last.period_start, last.period_end)
       IN  /\ store' = delete_weekly_insight(store, u, last.period_start)
           /\ origin' = {o \in origin : ~(o.user_id = u /\ o.week_start = last.period_start)}
           /\ proc' = [proc EXCEPT ![w] =
                 AnalysisGate([Idle EXCEPT !.kind = "generate", !.uid = u,
                                           !.last = last],
                              refl, MinReflectionsForced)]
    /\ UNCHANGED <<today, pcur, plast, entries, run>>

\* Stage 1 with a gateway failure that is not caught
Stage1Raising(w) ==
    /\ proc[w].pc = "stage1"
    /\ \E outcome \in chat("situations", SituationReplies, AllSituationReplies) :
         LET r  == [proc[w] EXCEPT !.calls = Append(@, "situations")]
             situations == parse_situations_response(outcome.v)
         IN  /\ proc' = [proc EXCEPT ![w] =
                   IF outcome.raised THEN Done(r, FALSE, ErrorResponse)
                   ELSE IF parse_situations_raises(outcome.v) THEN ToShallow(r)
                   ELSE IF Len(situations) < MinSituations THEN ToShallow(r)
                   ELSE [r EXCEPT !.pc = "stage2", !.situations = situations]]
             /\ run' = Logged("situations", outcome)
    /\ UNCHANGED <<today, pcur, plast, store, entries, origin>>

\* Stage 1 without its gate on the number of situations
Stage1NoGate(w) ==
    /\ proc[w].pc = "stage1"
    /\ \E outcome \in chat("situations", SituationReplies, AllSituationReplies) :
         LET r  == [proc[w] EXCEPT !.calls = Append(@, "situations")]
             situations == parse_situations_response(outcome.v)
         IN  /\ proc' = [proc EXCEPT ![w] =
                   IF outcome.raised THEN ToShallow(r)
                   ELSE IF parse_situations_raises(outcome.v) THEN ToShallow(r)
                   ELSE [r EXCEPT !.pc = "stage2", !.situations = situations]]
             /\ run' = Logged("situations", outcome)
    /\ UNCHANGED <<today, pcur, plast, store, entries, origin>>

\* Stage 1: situation extraction
Stage1(w) ==
    /\ proc[w].pc = "stage1"
    /\ \E outcome \in chat("situations", SituationReplies, AllSituationReplies) :
         LET r  == [proc[w] EXCEPT !.calls = Append(@, "situations")]
             situations == parse_situations_response(outcome.v)
         IN  /\ proc' = [proc EXCEPT ![w] =
                   IF outcome.raised THEN ToShallow(r)
                   ELSE IF parse_situations_raises(outcome.v) THEN ToShallow(r)
                   ELSE IF Len(situations) < MinSituations THEN ToShallow(r)
                   ELSE [r EXCEPT !.pc = "stage2", !.situations = situations]]
             /\ run' = Logged("situations", outcome)
    /\ UNCHANGED <<today, pcur, plast, store, entries, origin>>

\* Stage 2 without its gate on the length of the pattern
Stage2NoGate(w) ==
    /\ proc[w].pc = "stage2"
    /\ \E outcome \in chat("pattern", PatternReplies, AllPatternReplies) :
         LET r  == [proc[w] EXCEPT !.calls = Append(@, "pattern")]
             core_pattern == strip(outcome.v)
         IN  /\ proc' = [proc EXCEPT ![w] =
                   IF outcome.raised THEN ToShallow(r)
                   ELSE [r EXCEPT !.pc = "stage3", !.core_pattern = Some(core_pattern)]]
             /\ run' = Logged("pattern", outcome)
    /\ UNCHANGED <<today, pcur, plast, store, entries, origin>>

\* Stage 2: pattern identification
Stage2(w) ==
    /\ proc[w].pc = "stage2"
    /\ \E outcome \in chat("pattern", PatternReplies, AllPatternReplies) :
         LET r  == [proc[w] EXCEPT !.calls = Append(@, "pattern")]
             core_pattern == strip(outcome.v)
         IN  /\ proc' = [proc EXCEPT ![w] =
                   IF outcome.raised THEN ToShallow(r)
                   ELSE IF core_pattern = EmptyStr \/ len(core_pattern) < MinPatternLen
                        THEN ToShallow(r)
                   ELSE [r EXCEPT !.pc = "stage3", !.core_pattern = Some(core_pattern)]]
             /\ run' = Logged("pattern", outcome)
    /\ UNCHANGED <<today, pcur, plast, store, entries, origin>>

\* Stage 3 that turns to the shallow fallback when it has no letter
Stage3FallingBack(w) ==
    /\ proc[w].pc = "stage3"
    /\ \E outcome \in chat("letter", LetterReplies, AllLetterReplies) :
         LET r  == [proc[w] EXCEPT !.calls = Append(@, "letter")]
             core_pattern == r.core_pattern.v
             cleaned == clean_letter(outcome.v)
             failed == outcome.raised \/ cleaned = EmptyStr \/ len(cleaned) < MinLetterLen
         IN  /\ proc' = [proc EXCEPT ![w] =
                   IF failed THEN ToShallow(r)
                   ELSE [r EXCEPT !.pc = "insert", !.letter = cleaned, !.depth = "deep"]]
             /\ run' = Logged("letter", outcome)
    /\ UNCHANGED <<today, pcur, plast, store, entries, origin>>

\* Stage 3 that returns the generator's text as it came
Stage3Uncleaned(w) ==
    /\ proc[w].pc = "stage3"
    /\ \E outcome \in chat("letter", LetterReplies, AllLetterReplies) :
         LET r  == [proc[w] EXCEPT !.calls = Append(@, "letter")]
             core_pattern == r.core_pattern.v
             cleaned == clean_letter(outcome.v)
             letter ==
               IF outcome.raised
               THEN (IF core_pattern # EmptyStr THEN core_pattern
                     ELSE gentle_insufficient_data_message(Len(r.reflections)))
               ELSE IF outcome.v = EmptyStr \/ len(outcome.v) < MinLetterLen
                    THEN core_pattern
               ELSE outcome.v
         IN  /\ proc' = [proc EXCEPT ![w] =
                   [r EXCEPT !.pc = "insert", !.letter = letter, !.depth = "deep"]]
             /\ run' = Logged("letter", outcome)
    /\ UNCHANGED <<today, pcur, plast, store, entries, origin>>

\* Stage 3 that keeps a letter shorter than the minimum
Stage3ShortKept(w) ==
    /\ proc[w].pc = "stage3"
    /\ \E outcome \in chat("letter", LetterReplies, AllLetterReplies) :
         LET r  == [proc[w] EXCEPT !.calls = Append(@, "letter")]
             core_pattern == r.core_pattern.v
             cleaned == clean_letter(outcome.v)
             letter ==
               IF outcome.raised
               THEN (IF core_pattern # EmptyStr THEN core_pattern
                     ELSE gentle_insufficient_data_message(Len(r.reflections)))
               ELSE IF cleaned = EmptyStr THEN core_pattern
               ELSE cleaned
         IN  /\ proc' = [proc EXCEPT ![w] =
                   [r EXCEPT !.pc = "insert", !.letter = letter, !.depth = "deep"]]
             /\ run' = Logged("letter", outcome)
    /\ UNCHANGED <<today, pcur, plast, store, entries, origin>>

\* Stage 3: letter generation; the result is tagged deep
Stage3(w) ==
    /\ proc[w].pc = "stage3"
    /\ \E outcome \in chat("letter", LetterReplies, AllLetterReplies) :
         LET r  == [proc[w] EXCEPT !.calls = Append(@, "letter")]
             core_pattern == r.core_pattern.v
             cleaned == clean_letter(outcome.v)
             letter ==
               IF outcome.raised
               THEN (IF core_pattern # EmptyStr THEN core_pattern
                     ELSE gentle_insufficient_data_message(Len(r.reflections)))
               ELSE IF cleaned = EmptyStr \/ len(cleaned) < MinLetterLen
                    THEN core_pattern
               ELSE cleaned
         IN  /\ proc' = [proc EXCEPT ![w] =
                   [r EXCEPT !.pc = "insert", !.letter = letter, !.depth = "deep"]]
             /\ run' = Logged("letter", outcome)
    /\ UNCHANGED <<today, pcur, plast, store, entries, origin>>

\* a shallow fallback that tags a failed generator's result insufficient
ShallowDegrading(w) ==
    /\ proc[w].pc = "shallow"
    /\ \E outcome \in chat("insight", InsightReplies, AllInsightReplies) :
         LET r == [proc[w] EXCEPT !.calls = Append(@, "insight")]
         IN  /\ proc' = [proc EXCEPT ![w] =
                   IF outcome.raised
                   THEN [r EXCEPT !.pc = "insert",
                                  !.letter = gentle_insufficient_data_message(Len(r.reflections)),
                                  !.core_pattern = None, !.situations = <<>>,
                                  !.depth = "insufficient"]
                   ELSE [r EXCEPT !.pc = "insert", !.letter = get_insight_letter(outcome),
                                  !.core_pattern = None, !.situations = <<>>,
                                  !.depth = "shallow"]]
             /\ run' = Logged("insight", outcome)
    /\ UNCHANGED <<today, pcur, plast, store, entries, origin>>

\* _shallow_fallback_sync: the single-shot insight letter
Shallow(w) ==
    /\ proc[w].pc = "shallow"
    /\ \E outcome \in chat("insight", InsightReplies, AllInsightReplies) :
         LET r == [proc[w] EXCEPT !.calls = Append(@, "insight")]
         IN  /\ proc' = [proc EXCEPT ![w] =
                   [r EXCEPT !.pc = "insert", !.letter = get_insight_letter(outcome),
                             !.core_pattern = None, !.situations = <<>>,
                             !.depth = "shallow"]]
             /\ run' = Logged("insight", outcome)
    /\ UNCHANGED <<today, pcur, plast, store, entries, origin>>

\* what the writer of a row answered with
Origin(r) ==
    [user_id |-> r.uid, week_start |-> r.last.period_start, returned |-> r.letter]

\* insights_letter with an insert whose failure is not swallowed
InsertLetterStrict(w) ==
    /\ proc[w].pc = "insert"
    /\ proc[w].kind = "letter"
    /\ LET r   == proc[w]
           ins == insert_weekly_insight(store, r.uid, r.last.period_start, r.letter)
       IN  /\ store' = ins.tbl
           /\ origin' = IF ins.id THEN origin \cup {Origin(r)} ELSE origin
           /\ proc' = [proc EXCEPT ![w] =
                 Done(r, ins.id, IF ins.id THEN GeneratedResponse(r)
                                 ELSE ErrorResponse)]
    /\ UNCHANGED <<today, pcur, plast, entries, run>>

\* insights_letter with an insert that replaces the stored letter
InsertLetterUpsert(w) ==
    /\ proc[w].pc = "insert"
    /\ proc[w].kind = "letter"
    /\ LET r   == proc[w]
           ins == insert_weekly_insight(
                     delete_weekly_insight(store, r.uid, r.last.period_start),
                     r.uid, r.last.period_start, r.letter)
       IN  /\ store' = ins.tbl
           /\ origin' = IF ins.id THEN origin \cup {Origin(r)} ELSE origin
           /\ proc' = [proc EXCEPT ![w] =
                 Done(r, ins.id, GeneratedResponse(r))]
    /\ UNCHANGED <<today, pcur, plast, entries, run>>

\* insights_letter that stores the letter of a deep analysis only
InsertLetterDeepOnly(w) ==
    /\ proc[w].pc = "insert"
    /\ proc[w].kind = "letter"
    /\ LET r   == proc[w]
           ins == IF r.depth = "deep"
                  THEN insert_weekly_insight(store, r.uid, r.last.period_start, r.letter)
                  ELSE [id |-> FALSE, tbl |-> store]
       IN  /\ store' = ins.tbl
           /\ origin' = IF ins.id THEN origin \cup {Origin(r)} ELSE origin
           /\ proc' = [proc EXCEPT ![w] =
                 Done(r, ins.id, GeneratedResponse(r))]
    /\ UNCHANGED <<today, pcur, plast, entries, run>>

\* insights_letter: try to insert, ignore a failure, answer with the letter
InsertLetter(w) ==
    /\ proc[w].pc = "insert"
    /\ proc[w].kind = "letter"
    /\ LET r   == proc[w]
           ins == insert_weekly_insight(store, r.uid, r.last.period_start, r.letter)
       IN  /\ store' = ins.tbl
           /\ origin' = IF ins.id THEN origin \cup {Origin(r)} ELSE origin
           /\ proc' = [proc EXCEPT ![w] =
                 Done(r, ins.id, GeneratedResponse(r))]
    /\ UNCHANGED <<today, pcur, plast, entries, run>>

\* insights_generate_letter: insert, answer with the letter
InsertGenerated(w) ==
    /\ proc[w].pc = "insert"
    /\ proc[w].kind = "generate"
    /\ LET r   == proc[w]
           ins == insert_weekly_insight(store, r.uid, r.last.period_start, r.letter)
       IN  /\ store' = ins.tbl
           /\ origin' = IF ins.id THEN origin \cup {Origin(r)} ELSE origin
           /\ proc' = [proc EXCEPT ![w] =
                 Done(r, ins.id, GeneratedResponse(r))]
    /\ UNCHANGED <<today, pcur, plast, entries, run>>

\* the request is abandoned where it stands (the HTTP layer timed out)
Abandon(w) ==
    /\ proc[w].pc \in InFlight
    /\ proc' = [proc EXCEPT ![w] =
          [Idle EXCEPT !.pc = "abandoned", !.kind = proc[w].kind,
                       !.uid = proc[w].uid, !.last = proc[w].last]]
    /\ UNCHANGED <<today, pcur, plast, store, entries, origin, run>>

\* the worker is free for its next request
Release(w) ==
    /\ proc[w].pc \in {"done", "abandoned"}
    /\ proc' = [proc EXCEPT ![w] = Idle]
    /\ UNCHANGED <<today, pcur, plast, store, entries, origin, run>>

\* ------------------------------------------------------------------------
\* Specification of the requests: two workers and two users on one of the
\* last day of a year and the days after it.  The reflections are those
\* saved by the first of these days.
\* ------------------------------------------------------------------------
ClockDays == 1

\* December 31 of the year after BaseYear
Day0 == Jan1(BaseYear + 2) - 1

SavedReflections ==
    [u \in Users |->
        IF u = "u1"
        THEN <<Entry(Day0, 1), Entry(Day0, 0), Entry(Day0 - 1, 1),
               Entry(Day0 - 2, 1), Entry(Day0 - 5, 0), Entry(Day0 - 6, 1)>>
        ELSE <<Entry(Day0 - 29, 0)>>]

\* midnight passes
Tick ==
    /\ today < Day0 + ClockDays
    /\ today' = today + 1
    /\ UNCHANGED <<pcur, plast, store, entries, proc, origin, run>>

Init ==
    /\ today = Day0
    /\ pcur = NoPeriod
    /\ plast = NoPeriod
    /\ store = EmptyBag
    /\ entries = SavedReflections
    /\ proc = [w \in Workers |-> Idle]
    /\ origin = {}
    /\ run = NoRun

Next ==
    \/ \E w \in Workers, u \in Users : StartLetter(w, u)
    \/ \E w \in Workers, u \in Users : StartGenerate(w, u)
    \/ \E w \in Workers : ListReflections(w)
    \/ \E w \in Workers : Recheck(w)
    \/ \E w \in Workers : Stage1(w)
    \/ \E w \in Workers : Stage2(w)
    \/ \E w \in Workers : Stage3(w)
    \/ \E w \in Workers : Shallow(w)
    \/ \E w \in Workers : InsertLetter(w)
    \/ \E w \in Workers : InsertGenerated(w)
    \/ \E w \in Workers : Abandon(w)
    \/ \E w \in Workers : Release(w)
    \/ Tick

Spec == Init /\ [][Next]_vars

\* ------------------------------------------------------------------------
\* Specification of the period functions alone: any day of the modelled
\* years, the two functions applied to it, the clock moving on.
\* ------------------------------------------------------------------------
FirstDay == Jan1(BaseYear + 1)
LastDay  == Jan1(BaseYear + NumYears) - 1

InitPeriod ==
    /\ today \in FirstDay .. LastDay
    /\ pcur = NoPeriod
    /\ plast = NoPeriod
    /\ store = EmptyBag
    /\ entries = [u \in Users |-> <<>>]
    /\ proc = [w \in Workers |-> Idle]
    /\ origin = {}
    /\ run = NoRun

CallCurrentPeriod ==
    /\ pcur' = current_5day_period(today)
    /\ UNCHANGED <<today, plast, store, entries, proc, origin, run>>

CallLastCompletedPeriod ==
    /\ plast' = last_completed_5day_period(today)
    /\ UNCHANGED <<today, pcur, store, entries, proc, origin, run>>

NextDay ==
    /\ today < LastDay
    /\ today' = today + 1
    /\ pcur' = NoPeriod
    /\ plast' = NoPeriod
    /\ UNCHANGED <<store, entries, proc, origin, run>>

NextPeriod == CallCurrentPeriod \/ CallLastCompletedPeriod \/ NextDay

SpecPeriod == InitPeriod /\ [][NextPeriod]_vars

\* ------------------------------------------------------------------------
\* Specification of one analysis run at a time, observed in isolation:
\* analyze_patterns_deep_sync(reflections, llm_chat_fn, min_reflections) is
\* called with 0 .. MaxEntries reflections and a minimum of 1 .. MaxEntries,
\* the gateway answers each call with any of its outcomes, and run records
\* what it answered.  A worker at "insert" holds the returned result.
\* ------------------------------------------------------------------------
MaxEntries == 4

\* n reflections, newest first
Reflections(n) == [i \in 1 .. n |-> Entry(Day0 - i, 0)]

InitAnalyze ==
    /\ today = Day0
    /\ pcur = NoPeriod
    /\ plast = NoPeriod
    /\ store = EmptyBag
    /\ entries = [u \in Users |-> <<>>]
    /\ proc = [w \in Workers |-> Idle]
    /\ origin = {}
    /\ run = NoRun

\* the call of analyze_patterns_deep_sync, up to its first gateway call
BeginAnalyze(w, n, min_reflections) ==
    /\ \A v \in Workers : proc[v].pc = "idle"
    /\ proc' = [proc EXCEPT ![w] =
          AnalysisGate([Idle EXCEPT !.kind = "analyze"], Reflections(n),
                       min_reflections)]
    /\ run' = NewRun(n, min_reflections)
    /\ UNCHANGED <<today, pcur, plast, store, entries, origin>>

\* the caller has taken the result
ReturnAnalysis(w) ==
    /\ proc[w].pc = "insert"
    /\ proc[w].kind = "analyze"
    /\ proc' = [proc EXCEPT ![w] = Idle]
    /\ UNCHANGED <<today, pcur, plast, store, entries, origin, run>>

NextAnalyze ==
    \/ \E w \in Workers, n \in 0 .. MaxEntries, m \in 1 .. MaxEntries :
          BeginAnalyze(w, n, m)
    \/ \E w \in Workers : Stage1(w)
    \/ \E w \in Workers : Stage2(w)
    \/ \E w \in Workers : Stage3(w)
    \/ \E w \in Workers : Shallow(w)
    \/ \E w \in Workers : ReturnAnalysis(w)

SpecAnalyze == InitAnalyze /\ [][NextAnalyze]_vars

\* ------------------------------------------------------------------------
\* Properties of the Period Bucketer (checked under SpecPeriod)
\* ------------------------------------------------------------------------
BothComputed == pcur # NoPeriod /\ plast # NoPeriod

\* today lies in the first period of its year (Jan 1 .. Jan 5)
InFirstPeriod == today - Jan1(YearOf(today)) < PeriodLen

\* C1: for every today, last_completed_period(today).end + 1 day equals
\* current_period(today).start, also in the first period of a year and
\* whether the previous year has 365 or 366 days.
C1_PeriodsTile ==
    BothComputed =>
        fromisoformat(plast.period_end) + 1 = fromisoformat(pcur.period_start)

\* the windows [a.start, a.end] and [b.start, b.end] of two periods
SameWindow(a, b) ==
    a.period_start = b.period_start /\ a.period_end = b.period_end

DisjointWindows(a, b) ==
    \/ fromisoformat(a.period_end) < fromisoformat(b.period_start)
    \/ fromisoformat(b.period_end) < fromisoformat(a.period_start)

\* C2: the windows of current_period(d1) and current_period(d2) are
\* identical or disjoint for any two dates d1 (today) and d2.
C2_NonOverlapping ==
    pcur # NoPeriod =>
        \A d2 \in FirstDay .. LastDay :
            LET q == current_5day_period(d2)
            IN  SameWindow(pcur, q) \/ DisjointWindows(pcur, q)

\* C3: the period returned by last_completed_period(today) is over: its end
\* date is strictly before today, for every today.
C3_LastPeriodCompleted ==
    plast # NoPeriod => fromisoformat(plast.period_end) < today

\* C4: current_period(today).end - current_period(today).start is exactly
\* 4 days for every today, including Jan 1 and Dec 31 of 365- and 366-day
\* years.
C4_PeriodLength ==
    pcur # NoPeriod =>
        fromisoformat(pcur.period_end) - fromisoformat(pcur.period_start) = 4

\* witness of C4: the current period computed on Dec 31 of a 366-day year,
\* where the window runs over the year boundary
C4_Witness ==
    /\ pcur # NoPeriod
    /\ IsLeap(YearOf(today))
    /\ today = Jan1(YearOf(today) + 1) - 1
    /\ pcur.period_end[1] = YearOf(today) + 1

\* C27: for every today the current period contains today, so is_complete
\* is false and days_remaining is (end - today) + 1, a number in 1 .. 5;
\* is_complete = true with days_remaining = 0 never comes out.
C27_TodayInCurrentPeriod ==
    pcur # NoPeriod =>
        /\ fromisoformat(pcur.period_start) <= today
        /\ today <= fromisoformat(pcur.period_end)
        /\ pcur.is_complete = FALSE
        /\ pcur.days_remaining = (fromisoformat(pcur.period_end) - today) + 1
        /\ pcur.days_remaining \in 1 .. 5

\* witness of C27: the current period computed on its last day, in a
\* 366-day year: one day remains and the period is not complete
C27_Witness ==
    /\ pcur # NoPeriod
    /\ IsLeap(YearOf(today))
    /\ today = fromisoformat(pcur.period_end)
    /\ pcur.days_remaining = 1
    /\ pcur.is_complete = FALSE

\* ------------------------------------------------------------------------
\* Properties of the requests (checked under Spec)
\* ------------------------------------------------------------------------
\* the step is a step of worker w's request
Stepped(w) == proc'[w] # proc[w]

\* worker w begins a get_or_create_letter request in this step
BeginsLetter(w) == proc[w].pc = "idle" /\ proc'[w].kind = "letter"

\* worker w begins a force_regenerate request in this step
BeginsGenerate(w) == proc[w].pc = "idle" /\ proc'[w].kind = "generate"

\* worker w looks the cache up in this step
LooksUp(w) ==
    /\ Stepped(w)
    /\ BeginsLetter(w) \/ (proc[w].pc = "recheck" /\ proc'[w].pc # "abandoned")

SameKey(a, b) ==
    a.uid = b.uid /\ a.last.period_start = b.last.period_start

\* worker a has answered a get_or_create_letter request with a letter it
\* generated and stored, and that row is still the stored one
GeneratedAndStored(a) ==
    /\ proc[a].pc = "done"
    /\ proc[a].kind = "letter"
    /\ proc[a].inserted
    /\ [ user_id |-> proc[a].uid, week_start |-> proc[a].last.period_start,
         returned |-> proc[a].resp.content.v ] \in origin

\* C5: when get_or_create_letter is called again for the same user and last
\* completed period after a call that generated a letter, the second call
\* returns exactly the content the first call returned, and it answers in
\* its lookup step, before any gateway call (whatever the gateway would do).
C5_IdempotentCaching ==
    [][\A w \in Workers : \A a \in Workers \ {w} :
          (Stepped(w) /\ BeginsLetter(w) /\ GeneratedAndStored(a)
             /\ SameKey(proc'[w], proc[a]))
          => /\ proc'[w].pc = "done"
             /\ proc'[w].resp.content = proc[a].resp.content]_vars

\* the cache lookup of worker w finds the non-empty stored row r
Finds(w, r) ==
    /\ LooksUp(w)
    /\ r \in RowsOf(store, proc'[w].uid, proc'[w].last.period_start)
    /\ r.content # EmptyStr

\* the request answers in this step, without a write to the store and
\* without having called the gateway
AnswersFromCache(w) ==
    /\ proc'[w].pc = "done"
    /\ proc'[w].resp.status = 200
    /\ proc'[w].resp.too_early = FALSE
    /\ proc[w].calls = <<>>
    /\ store' = store

\* C6 as stated: whenever the store holds a non-empty letter for the key at
\* a lookup of get_or_create_letter, the request returns that stored content
\* with too_early = false, without a gateway call and without an insert or
\* delete; the lookup comes before any gateway call.
C6_CacheFastPath ==
    [][\A w \in Workers : \A r \in BagToSet(store) :
          Finds(w, r) => /\ AnswersFromCache(w)
                         /\ proc'[w].resp.content = Some(r.content)]_vars

\* C6 as amended: the content returned is the stored content with its
\* leading and trailing whitespace stripped.
C6_CacheFastPathStripped ==
    [][\A w \in Workers : \A r \in BagToSet(store) :
          Finds(w, r) => /\ AnswersFromCache(w)
                         /\ proc'[w].resp.content = Some(strip(r.content))]_vars

\* the answer of worker w came from the cache
FromCache(w) ==
    /\ proc[w].pc = "done"
    /\ proc[w].kind = "letter"
    /\ proc[w].resp.status = 200
    /\ ~proc[w].resp.too_early
    /\ proc[w].resp.analysis_depth = "absent"

\* witness of C6: a request answered from the cache while the stored row
\* ends in whitespace, so the answer is the stripped row
C6_Witness ==
    \E w \in Workers :
       /\ FromCache(w)
       /\ \E r \in RowsOf(store, proc[w].uid, proc[w].last.period_start) :
             /\ proc[w].resp.content = Some(strip(r.content))
             /\ strip(r.content) # r.content

\* C7: in every reachable state the store holds at most one letter per
\* (user_id, period_start).
C7_AtMostOneLetter ==
    \A r \in BagToSet(store) : RowCount(store, r.user_id, r.week_start) <= 1

\* worker w answered with a letter it generated
Generated(w) ==
    /\ proc[w].pc = "done"
    /\ proc[w].resp.status = 200
    /\ proc[w].resp.analysis_depth \in {"deep", "shallow", "insufficient"}

\* witness of C7: a request generated a letter and its insert was refused,
\* the key holding one row
C7_Witness ==
    \E w \in Workers :
       /\ Generated(w)
       /\ ~proc[w].inserted
       /\ RowCount(store, proc[w].uid, proc[w].last.period_start) = 1

\* C8: a get_or_create_letter request whose insert meets a stored row for
\* its key does not fail: it returns its own generated content with
\* too_early = false, and the stored row stays as it is.
C8_LoserStillAnswers ==
    [][\A w \in Workers :
          (/\ Stepped(w)
           /\ proc[w].pc = "insert" /\ proc[w].kind = "letter"
           /\ proc'[w].pc # "abandoned"
           /\ RowCount(store, proc[w].uid, proc[w].last.period_start) > 0)
          => /\ proc'[w].pc = "done"
             /\ proc'[w].resp.status = 200
             /\ proc'[w].resp.content = Some(proc[w].letter)
             /\ proc'[w].resp.too_early = FALSE
             /\ store' = store]_vars

\* witness of C8: two get_or_create_letter requests for one key both
\* generated; one stored its letter, the other lost and answered with a
\* different letter
C8_Witness ==
    \E w \in Workers : \E a \in Workers \ {w} :
       /\ Generated(w) /\ proc[w].kind = "letter" /\ ~proc[w].inserted
       /\ GeneratedAndStored(a)
       /\ SameKey(proc[w], proc[a])
       /\ proc[w].resp.content # proc[a].resp.content

\* C9: force_regenerate first deletes the stored letter of its key and never
\* answers from the cache; it starts Stage 1 as soon as the period has 2
\* entries, and with exactly 2 entries its result is not tagged
\* insufficient, while get_or_create_letter with 2 entries is.
C9_ForcedRegeneration ==
    [][\A w \in Workers :
          Stepped(w) =>
            /\ BeginsGenerate(w) =>
                 /\ RowCount(store', proc'[w].uid, proc'[w].last.period_start) = 0
                 /\ proc'[w].pc = IF Len(proc'[w].reflections) >= 2
                                  THEN "stage1" ELSE "insert"
            /\ (proc[w].kind = "generate" /\ proc'[w].pc = "done") =>
                 /\ proc[w].pc = "insert"
                 /\ proc'[w].resp.content = Some(proc[w].letter)
                 /\ Len(proc[w].reflections) = 2 =>
                      /\ proc[w].calls # <<>>
                      /\ proc[w].calls[1] = "situations"
                      /\ proc'[w].resp.analysis_depth # "insufficient"
            /\ (/\ proc[w].kind = "letter" /\ proc[w].pc = "recheck"
                /\ proc'[w].pc \notin {"done", "abandoned"}
                /\ Len(proc[w].reflections) = 2) =>
                 /\ proc'[w].pc = "insert"
                 /\ proc'[w].depth = "insufficient"]_vars

\* witness of C9: for one key with 2 entries, a get_or_create_letter request
\* was answered insufficient and a force_regenerate request has its letter
\* from the gateway stages, the stored letter being deleted
C9_Witness ==
    \E w \in Workers : \E a \in Workers \ {w} :
       /\ proc[w].kind = "generate" /\ proc[w].pc = "insert"
       /\ Len(proc[w].reflections) = 2
       /\ proc[w].depth \in {"deep", "shallow"}
       /\ proc[a].pc = "done" /\ proc[a].kind = "letter" /\ proc[a].inserted
       /\ proc[a].resp.analysis_depth = "insufficient"
       /\ SameKey(proc[w], proc[a])
       /\ RowCount(store, proc[w].uid, proc[w].last.period_start) = 0

\* C10 as stated: no step of a request before its final insert changes the
\* store, so a request abandoned before the insert leaves the store as it
\* was.
C10_NothingPersistedBeforeInsert ==
    [][\A w \in Workers :
          (Stepped(w) /\ proc[w].pc # "insert") => store' = store]_vars

\* the table after the rows of key (u, ws) are gone and nothing else changed
OnlyKeyDeleted(u, ws) ==
    /\ RowCount(store', u, ws) = 0
    /\ \A r \in BagToSet(store) \cup BagToSet(store') :
          ~(r.user_id = u /\ r.week_start = ws)
             => CopiesIn(r, store') = CopiesIn(r, store)

\* C10 as amended: before its final insert a get_or_create_letter request
\* changes nothing in the store, and a force_regenerate request changes
\* only what its first step deletes: the letter of its own key.
C10_OnlyDeleteBeforeInsert ==
    [][\A w \in Workers :
          (Stepped(w) /\ proc[w].pc # "insert") =>
             IF BeginsGenerate(w)
             THEN OnlyKeyDeleted(proc'[w].uid, proc'[w].last.period_start)
             ELSE store' = store]_vars

\* witness of C10: a force_regenerate request was abandoned after it had
\* deleted the letter another request stored
C10_Witness ==
    \E w \in Workers : \E a \in Workers \ {w} :
       /\ proc[w].pc = "abandoned" /\ proc[w].kind = "generate"
       /\ proc[a].pc = "done" /\ proc[a].inserted
       /\ SameKey(proc[w], proc[a])
       /\ RowCount(store, proc[w].uid, proc[w].last.period_start) = 0

\* ------------------------------------------------------------------------
\* Properties of the analysis (checked under SpecAnalyze)
\* ------------------------------------------------------------------------
\* worker w holds the result analyze_patterns_deep_sync returned
HasResult(w) == proc[w].pc = "insert" /\ proc[w].kind = "analyze"

\* the chat call for the prompt was made and returned text
Answered(prompt) == run.chat[prompt].called /\ ~run.chat[prompt].raised

\* the chat call for the prompt was made and raised
Failed(prompt) == run.chat[prompt].called /\ run.chat[prompt].raised

\* the valid situations of the Stage 1 answer
Extracted == parse_situations_response(run.chat["situations"].v)

\* the Stage 2 answer, trimmed
Identified == strip(run.chat["pattern"].v)

\* the Stage 3 answer, cleaned
CleanedLetter == clean_letter(run.chat["letter"].v)

\* what the single-shot summarizer made of its chat call
SummarizerOutput ==
    get_insight_letter([raised |-> run.chat["insight"].raised,
                        v |-> run.chat["insight"].v])

Stage1Passed == Answered("situations") /\ Len(Extracted) >= 2

Stage2Passed == Stage1Passed /\ Answered("pattern") /\ len(Identified) >= 50

\* C12: a result is tagged deep only if the extractor produced at least 2
\* valid situations and the identifier returned a trimmed string of at
\* least 50 characters; if either gate fails the result is not deep.
C12_DeepOnlyThroughGates ==
    \A w \in Workers :
       (HasResult(w) /\ proc[w].depth = "deep") => Stage2Passed

\* witness of C12: the identifier answered more than 50 characters that
\* trim to 49, and the result is shallow
C12_Witness ==
    \E w \in Workers :
       /\ HasResult(w)
       /\ Stage1Passed
       /\ Answered("pattern")
       /\ len(run.chat["pattern"].v) > 50
       /\ len(Identified) = 49
       /\ proc[w].depth = "shallow"

\* C13: analyze never raises, whatever the gateway does: every call that
\* raises, returns empty text or returns unparsable text is absorbed, every
\* stage has a next step, no request ends as a server error, and a returned
\* result is tagged deep, shallow or insufficient.
C13_NeverRaises ==
    \A w \in Workers :
       /\ proc[w].resp.status # 500
       /\ proc[w].pc \in {"idle", "stage1", "stage2", "stage3", "shallow", "insert"}
       /\ proc[w].pc = "stage1" => ENABLED Stage1(w)
       /\ proc[w].pc = "stage2" => ENABLED Stage2(w)
       /\ proc[w].pc = "stage3" => ENABLED Stage3(w)
       /\ proc[w].pc = "shallow" => ENABLED Shallow(w)
       /\ HasResult(w) =>
            /\ proc[w].depth \in {"deep", "shallow", "insufficient"}
            /\ proc[w].letter # EmptyStr

\* the consequence C13 draws for the handlers (checked under Spec): no
\* request is answered with a server error, whatever the gateway does
RequestsNeverFail == \A w \in Workers : proc[w].resp.status \in {0, 200}

\* witness of C13: a result was returned after every gateway call of the
\* run had raised
C13_Witness ==
    \E w \in Workers :
       /\ HasResult(w)
       /\ Failed("situations")
       /\ Failed("insight")
       /\ proc[w].depth = "shallow"

FullRuns ==
    { <<"situations", "pattern", "letter">>,
      <<"situations", "pattern", "insight">>,
      <<"situations", "insight">> }

\* C15: a run makes at most three gateway calls, one after the other in
\* stage order: extraction, pattern identification only after at least 2
\* situations, letter generation only after a pattern of at least 50
\* characters; the shallow fallback's call is one of the three.
C15_AtMostThreeCalls ==
    \A w \in Workers :
       proc[w].kind = "analyze" =>
          LET calls == proc[w].calls
          IN  /\ Len(calls) <= 3
              /\ \E full \in FullRuns :
                    /\ Len(calls) <= Len(full)
                    /\ calls = SubSeq(full, 1, Len(calls))
              /\ \A prompt \in Prompts :
                    run.chat[prompt].called <=>
                       \E i \in 1 .. Len(calls) : calls[i] = prompt
              /\ run.chat["pattern"].called => Stage1Passed
              /\ run.chat["letter"].called => Stage2Passed
              /\ HasResult(w) => (calls = <<>> \/ calls \in FullRuns)

\* witness of C15: the shallow fallback after a failed Stage 2 was the
\* third call
C15_Witness ==
    \E w \in Workers :
       /\ HasResult(w)
       /\ proc[w].calls = <<"situations", "pattern", "insight">>
       /\ ~Stage2Passed

\* C16: with enough entries, when the extractor raises or yields fewer than
\* 2 situations, the result is shallow with core_pattern null, no
\* situations and the single-shot summarizer's output as its letter, and
\* neither the Pattern Identifier nor the Letter Generator was called.
C16_ShallowScenario ==
    \A w \in Workers :
       (/\ HasResult(w)
        /\ run.entries >= run.min_reflections
        /\ Failed("situations") \/ (Answered("situations") /\ Len(Extracted) < 2))
       => /\ proc[w].depth = "shallow"
          /\ proc[w].core_pattern = None
          /\ proc[w].situations = <<>>
          /\ proc[w].letter = SummarizerOutput
          /\ ~run.chat["pattern"].called
          /\ ~run.chat["letter"].called
          /\ proc[w].calls = <<"situations", "insight">>

\* witness of C16: the extractor's list of two held one valid situation,
\* and the result carries the summarizer's text
C16_Witness ==
    \E w \in Workers :
       /\ HasResult(w)
       /\ Answered("situations")
       /\ run.chat["situations"].v.json.t = "list"
       /\ Len(run.chat["situations"].v.json.items) = 2
       /\ Len(Extracted) = 1
       /\ Answered("insight")
       /\ proc[w].depth = "shallow"
       /\ proc[w].letter = Str(600, "insight")

\* C17: with enough entries, n >= 2 valid situations, a pattern of at least
\* 50 characters and a letter of at least 100 characters after cleaning,
\* the result is deep, its situations are the n extracted ones in order,
\* its core_pattern is the identifier's trimmed string and its letter is
\* the generator's cleaned output.
C17_DeepScenario ==
    \A w \in Workers :
       (/\ HasResult(w)
        /\ run.entries >= run.min_reflections
        /\ Stage2Passed
        /\ Answered("letter")
        /\ len(CleanedLetter) >= 100)
       => /\ proc[w].depth = "deep"
          /\ proc[w].situations = Extracted
          /\ proc[w].core_pattern = Some(Identified)
          /\ proc[w].letter = CleanedLetter

\* witness of C17: a deep result with 4 situations whose letter is the
\* generator's text without its greeting line
C17_Witness ==
    \E w \in Workers :
       /\ HasResult(w)
       /\ proc[w].depth = "deep"
       /\ Len(proc[w].situations) = 4
       /\ Answered("letter")
       /\ run.chat["letter"].v # EmptyStr
       /\ run.chat["letter"].v[1].k = "greet"
       /\ proc[w].letter = Str(600, "letter")

\* C18: with fewer entries than min_reflections analyze makes no gateway
\* call and returns insufficient, core_pattern null, no situations and the
\* message of the entry count: one for 0, one for 1, one for every count
\* from 2 on; the three messages differ from each other.
C18_InsufficientTiers ==
    LET none == gentle_insufficient_data_message(0)
        once == gentle_insufficient_data_message(1)
        more == gentle_insufficient_data_message(2)
    IN  /\ none # once /\ once # more /\ none # more
        /\ \A n \in 2 .. MaxEntries : gentle_insufficient_data_message(n) = more
        /\ \A w \in Workers :
              (HasResult(w) /\ run.entries < run.min_reflections)
              => /\ proc[w].calls = <<>>
                 /\ \A prompt \in Prompts : ~run.chat[prompt].called
                 /\ proc[w].depth = "insufficient"
                 /\ proc[w].core_pattern = None
                 /\ proc[w].situations = <<>>
                 /\ Len(proc[w].reflections) = run.entries
                 /\ proc[w].letter = IF run.entries = 0 THEN none
                                     ELSE IF run.entries = 1 THEN once
                                     ELSE more

\* witness of C18: 3 entries under a minimum of 4 were answered with the
\* message for 2 or more
C18_Witness ==
    \E w \in Workers :
       /\ HasResult(w)
       /\ run.entries = 3
       /\ run.min_reflections = 4
       /\ proc[w].depth = "insufficient"
       /\ proc[w].letter = gentle_insufficient_data_message(2)
       /\ proc[w].letter # gentle_insufficient_data_message(1)

\* C20: once Stages 1 and 2 have passed, if the Letter Generator raises or
\* returns text that is shorter than 100 characters after cleaning (empty
\* included), the letter is exactly the core_pattern and the result is
\* still deep, with core_pattern and situations populated.
C20_Stage3Fallback ==
    \A w \in Workers :
       (/\ HasResult(w)
        /\ Stage2Passed
        /\ Failed("letter") \/ (Answered("letter") /\ len(CleanedLetter) < 100))
       => /\ proc[w].letter = Identified
          /\ proc[w].depth = "deep"
          /\ proc[w].core_pattern = Some(Identified)
          /\ proc[w].situations = Extracted
          /\ Len(proc[w].situations) >= 2

\* witness of C20: the generator's text was over 100 characters and under
\* 100 once its greeting line was dropped; the letter is the core pattern
C20_Witness ==
    \E w \in Workers :
       /\ HasResult(w)
       /\ Answered("letter")
       /\ len(run.chat["letter"].v) >= 100
       /\ len(CleanedLetter) < 100
       /\ proc[w].depth = "deep"
       /\ proc[w].letter = proc[w].core_pattern.v

\* C21 as stated: in the shallow fallback, when the gateway call of the
\* single-shot insight letter raises, the returned letter is
\* insufficient_data_message(len(entries)) and the result is tagged shallow
\* with core_pattern null and no situations.
C21_ShallowFailureMessage ==
    \A w \in Workers :
       (HasResult(w) /\ Failed("insight")) =>
          /\ proc[w].letter = gentle_insufficient_data_message(run.entries)
          /\ proc[w].depth = "shallow"
          /\ proc[w].core_pattern = None
          /\ proc[w].situations = <<>>

\* the Stage 3 answer, trimmed and without its code fence
UnfencedLetter == StripCodeFence(strip(run.chat["letter"].v))

\* the Stage 3 answer has a greeting line and another one right after it
SecondGreeting ==
    /\ StartsWithGreeting(UnfencedLetter)
    /\ StartsWithGreeting(strip(Tail(UnfencedLetter)))

\* the result's letter is the text of Stage 3
LetterOfStage3(w) ==
    /\ Answered("letter")
    /\ proc[w].depth = "deep"
    /\ len(CleanedLetter) >= MinLetterLen

\* C22 as stated: for every raw output of the Letter Generator the cleaned
\* letter does not start with a greeting line, also when the raw output
\* has several greeting lines in a row or a greeting line inside a code
\* fence.
C22_NoGreetingAfterCleaning ==
    \A w \in Workers :
       (HasResult(w) /\ Answered("letter")) =>
          /\ ~StartsWithGreeting(CleanedLetter)
          /\ LetterOfStage3(w) => ~StartsWithGreeting(proc[w].letter)

\* C22 as amended: cleaning removes an enclosing code fence and then one
\* greeting line.  The cleaned letter starts with a greeting line exactly
\* when the raw output, without its fence, has a second greeting line
\* right after the first.
C22_OneGreetingLineDropped ==
    \A w \in Workers :
       (HasResult(w) /\ Answered("letter")) =>
          /\ StartsWithGreeting(CleanedLetter) <=> SecondGreeting
          /\ LetterOfStage3(w) =>
                (StartsWithGreeting(proc[w].letter) <=> SecondGreeting)
          /\ (LetterOfStage3(w) /\ StartsWithGreeting(UnfencedLetter)) =>
                proc[w].letter = strip(Tail(UnfencedLetter))

\* witness of C22: the generator answered with a greeting line inside a
\* code fence, and the returned letter is the text after that line
C22_Witness ==
    \E w \in Workers :
       /\ HasResult(w)
       /\ Answered("letter")
       /\ Len(run.chat["letter"].v) >= 3
       /\ run.chat["letter"].v[1].k = "fence"
       /\ run.chat["letter"].v[2].k = "greet"
       /\ LetterOfStage3(w)
       /\ proc[w].letter = <<run.chat["letter"].v[3]>>

\* the text the result's letter was taken from: the Stage 3 answer, the
\* core pattern, or the output of the single-shot summarizer
LetterSource(w) ==
    IF proc[w].depth = "deep"
    THEN (IF LetterOfStage3(w) THEN run.chat["letter"].v ELSE Identified)
    ELSE SummarizerOutput

\* C23 as stated: whichever stage produced the letter text (the Stage 3
\* answer, the core pattern used when Stage 3 fails or is too short, the
\* output of the shallow summarizer), the returned letter is that text
\* passed through the same cleaning.
C23_UniformCleaning ==
    \A w \in Workers :
       (HasResult(w) /\ proc[w].depth \in {"deep", "shallow"}) =>
          proc[w].letter = clean_letter(LetterSource(w))

\* what the claim expects of one decoded item: the four fields, capped,
\* a missing optional field being the empty string
FourFields(item) ==
    [ situation     |-> Capped(ItemGet(item, "situation", NoVal), SituationCap),
      emotion       |-> Capped(ItemGet(item, "emotion", NoVal), EmotionCap),
      behavior      |-> Capped(ItemGet(item, "behavior", NoVal), BehaviorCap),
      self_judgment |-> Capped(ItemGet(item, "self_judgment", NoVal), SelfJudgmentCap) ]

\* the items that are records with a non-empty situation, in input order
RECURSIVE RecordsWithSituation(_)
RecordsWithSituation(items) ==
    IF items = <<>> THEN <<>>
    ELSE (IF items[1].dict /\ "situation" \in DOMAIN items[1].f
             /\ items[1].f["situation"].n > 0
          THEN <<FourFields(items[1])>> ELSE <<>>)
         \o RecordsWithSituation(Tail(items))

\* C24 as stated: for any gateway text the parse does not raise; it is
\* empty when the text has no bracketed list, does not decode, or decodes
\* to something that is not a list; otherwise it holds, in input order,
\* exactly the records with a non-empty situation, each with the four
\* fields capped at 500/200/300/200, a missing optional field being "".
C24_ParseNeverRaises ==
    \A w \in Workers :
       (proc[w].kind = "analyze" /\ ~run.free /\ Answered("situations")) =>
          LET raw == run.chat["situations"].v
          IN  /\ ~parse_situations_raises(raw)
              /\ IF raw.empty \/ ~raw.brackets \/ raw.json.t # "list"
                 THEN Extracted = <<>>
                 ELSE Extracted = RecordsWithSituation(raw.json.items)

\* C25: every returned result is consistent: deep has a core pattern of at
\* least 50 characters and at least 2 situations; shallow and insufficient
\* have no core pattern and no situations; the letter is never empty.
C25_ResultConsistent ==
    \A w \in Workers :
       HasResult(w) =>
          /\ proc[w].depth \in {"deep", "shallow", "insufficient"}
          /\ proc[w].depth = "deep" =>
                /\ proc[w].core_pattern.some
                /\ len(proc[w].core_pattern.v) >= 50
                /\ Len(proc[w].situations) >= 2
          /\ proc[w].depth \in {"shallow", "insufficient"} =>
                /\ proc[w].core_pattern = None
                /\ proc[w].situations = <<>>
          /\ proc[w].letter # EmptyStr
          /\ len(proc[w].letter) > 0

\* witness of C25: the summarizer's gateway call answered with the empty
\* text, and the shallow result still has a letter
C25_Witness ==
    \E w \in Workers :
       /\ HasResult(w)
       /\ Answered("insight")
       /\ run.chat["insight"].v = EmptyStr
       /\ proc[w].depth = "shallow"
       /\ proc[w].letter = INSIGHT_LETTER_FALLBACK

\* C26: the result is tagged insufficient exactly when there are fewer
\* entries than min_reflections; past that gate no failure gives the tag,
\* whatever the letter.
C26_InsufficientIffTooFew ==
    \A w \in Workers :
       HasResult(w) =>
          /\ proc[w].depth = "insufficient" <=> run.entries < run.min_reflections
          /\ run.entries < run.min_reflections =>
                \A p \in Prompts : ~run.chat[p].called

\* witness of C26: the entries are exactly the minimum, every gateway call
\* of the run failed, the letter is the fixed fallback sentence and the
\* tag is shallow
C26_Witness ==
    \E w \in Workers :
       /\ HasResult(w)
       /\ run.entries = run.min_reflections
       /\ Failed("situations")
       /\ Failed("insight")
       /\ \A p \in Prompts : run.chat[p].called => run.chat[p].raised
       /\ proc[w].letter = INSIGHT_LETTER_FALLBACK
       /\ proc[w].depth = "shallow"

\* ------------------------------------------------------------------------
\* Properties of the requests, continued (checked under Spec)
\* ------------------------------------------------------------------------
\* the positions of user u's entries created in the 30 days up to today,
\* time of day now
InLookback(u, now) ==
    { i \in 1 .. Len(entries[u]) :
        \/ entries[u][i].created_at[1] > today - 30
        \/ /\ entries[u][i].created_at[1] = today - 30
           /\ entries[u][i].created_at[2] >= now }

\* the "too early" answer of a request that began on day t
TooEarlyOn(resp, t) ==
    LET first == Jan1(YearOf(t)) + ((t - Jan1(YearOf(t))) \div 5) * 5
    IN  /\ resp.status = 200
        /\ resp.too_early = TRUE
        /\ resp.content = None
        /\ resp.period_start = isoformat(first)
        /\ resp.period_end = isoformat(first + 4)
        /\ resp.days_remaining = SomeInt(first + 4 - t + 1)
        /\ resp.period_start # last_completed_5day_period(t).period_start

\* C11: when the user has no entry in the trailing 30 days at the time
\* get_or_create_letter lists them, the request answers too_early = true
\* with content null and the current period's start, end and
\* days_remaining, without a gateway call and without a write to the store;
\* with an entry in the window it does not answer "too early".
C11_TooEarly ==
    [][\A w \in Workers :
          (Stepped(w) /\ proc[w].pc = "list" /\ proc'[w].pc # "abandoned")
          => \E now \in TimesOfDay :
                IF InLookback(proc[w].uid, now) = {}
                THEN /\ proc'[w].pc = "done"
                     /\ \E t \in Day0 .. today : TooEarlyOn(proc'[w].resp, t)
                     /\ proc[w].calls = <<>>
                     /\ store' = store
                ELSE proc'[w].pc = "recheck"]_vars

\* witness of C11: a request was answered "too early" with the current
\* period, the user having an entry 30 days back but none in the window
C11_Witness ==
    \E w \in Workers :
       /\ proc[w].pc = "done"
       /\ proc[w].resp.status = 200
       /\ proc[w].resp.too_early
       /\ entries[proc[w].uid] # <<>>
       /\ proc[w].resp.period_start = current_5day_period(today).period_start
       /\ RowCount(store, proc[w].uid, proc[w].last.period_start) = 0

\* the entries of user u dated within [period_start, period_end], newest first
DatedWithin(u, last) ==
    SelectSeq(entries[u],
              LAMBDA e : /\ fromisoformat(last.period_start) <= e.created_at[1]
                         /\ e.created_at[1] <= fromisoformat(last.period_end))

\* worker w fixes the entries of its analysis in this step
TakesEntries(w) ==
    /\ Stepped(w)
    /\ \/ proc[w].pc = "list" /\ proc'[w].pc = "recheck"
       \/ BeginsGenerate(w)

\* C19: the entries get_or_create_letter and force_regenerate feed to the
\* analysis are exactly the user's entries whose created_at date lies in
\* [period_start, period_end] of the last completed period, both inclusive.
C19_EntriesOfThePeriod ==
    [][\A w \in Workers :
          /\ TakesEntries(w) =>
               proc'[w].reflections = DatedWithin(proc'[w].uid, proc'[w].last)
          /\ (Stepped(w) /\ proc[w].pc = "recheck"
                /\ proc'[w].pc \in {"stage1", "insert"}) =>
               proc'[w].reflections = DatedWithin(proc[w].uid, proc[w].last)]_vars

\* witness of C19: an analysis runs on the entries of the period while the
\* user has entries on both bounds of it, before its start and after its end
C19_Witness ==
    \E w \in Workers :
       LET u == proc[w].uid
           first == fromisoformat(proc[w].last.period_start)
           final == fromisoformat(proc[w].last.period_end)
       IN  /\ proc[w].pc \in {"stage1", "stage2", "stage3", "shallow"}
           /\ proc[w].reflections = DatedWithin(u, proc[w].last)
           /\ \E i \in 1 .. Len(entries[u]) : entries[u][i].created_at[1] = first
           /\ \E i \in 1 .. Len(entries[u]) : entries[u][i].created_at[1] = final
           /\ \E i \in 1 .. Len(entries[u]) : entries[u][i].created_at[1] < first
           /\ \E i \in 1 .. Len(entries[u]) : entries[u][i].created_at[1] > final

\* the step takes a stored row away (removes or replaces it)
TakesAway(r) == CopiesIn(r, store') < CopiesIn(r, store)

\* worker w's step belongs to a get_or_create_letter request
LetterStep(w) == Stepped(w) /\ (proc[w].kind = "letter" \/ BeginsLetter(w))

\* C28: no step of a get_or_create_letter request modifies or removes a
\* stored letter, in any interleaving: what is stored before the step is
\* stored after it.  Only the delete step of a force_regenerate request
\* takes a stored letter away, and only that of its own key.
C28_StoredLetterKept ==
    [][/\ \A w \in Workers : \A r \in BagToSet(store) :
             LetterStep(w) => ~TakesAway(r)
       /\ \A r \in BagToSet(store) :
             TakesAway(r) =>
                \E w \in Workers :
                   /\ BeginsGenerate(w)
                   /\ proc'[w].uid = r.user_id
                   /\ proc'[w].last.period_start = r.week_start]_vars

\* witness of C28: a get_or_create_letter request made its insert while the
\* key held the letter a force_regenerate request had stored; that letter
\* is still the stored one and differs from the request's own
C28_Witness ==
    \E w \in Workers : \E a \in Workers \ {w} :
       /\ Generated(w) /\ proc[w].kind = "letter" /\ ~proc[w].inserted
       /\ proc[a].pc = "done" /\ proc[a].kind = "generate" /\ proc[a].inserted
       /\ SameKey(proc[w], proc[a])
       /\ proc[w].resp.content # proc[a].resp.content
       /\ RowsOf(store, proc[a].uid, proc[a].last.period_start) =
             { Row(proc[a].uid, proc[a].last.period_start,
                   Slice(strip(proc[a].resp.content.v), ContentCap)) }

\* the insert step of a get_or_create_letter request on a free key stores
\* the letter of its analysis, whatever the depth
InsertsWhateverDepth(w) ==
    (/\ proc[w].kind = "letter" /\ proc[w].pc = "insert"
     /\ proc'[w].pc # "abandoned"
     /\ RowCount(store, proc[w].uid, proc[w].last.period_start) = 0)
    => /\ proc[w].depth \in {"deep", "shallow", "insufficient"}
       /\ proc'[w].inserted
       /\ RowsOf(store', proc[w].uid, proc[w].last.period_start) =
             { Row(proc[w].uid, proc[w].last.period_start,
                   Slice(strip(proc[w].letter), ContentCap)) }

\* a stored letter stays until a force_regenerate request of its key
\* deletes it
StaysUntilRegenerated ==
    \A r \in BagToSet(store) :
       TakesAway(r) =>
          \E w \in Workers :
             /\ BeginsGenerate(w)
             /\ proc'[w].uid = r.user_id
             /\ proc'[w].last.period_start = r.week_start

\* C29 as stated: a get_or_create_letter request that reached the analysis
\* inserts the resulting letter whatever its depth; once a letter is
\* stored, every later get_or_create_letter request for the key returns
\* that stored letter in its first step, without an analysis, until a
\* force_regenerate request deletes it.
C29_StoredLetterSticks ==
    [][/\ \A w \in Workers : Stepped(w) => InsertsWhateverDepth(w)
       /\ \A w \in Workers :
             \A r \in BagToSet(store) :
                (/\ Stepped(w) /\ BeginsLetter(w)
                 /\ r.user_id = proc'[w].uid
                 /\ r.week_start = proc'[w].last.period_start)
                => /\ proc'[w].pc = "done"
                   /\ proc'[w].resp.status = 200
                   /\ proc'[w].resp.content = Some(r.content)
                   /\ store' = store
       /\ StaysUntilRegenerated]_vars

\* C29 as amended: the later requests return the stored letter with its
\* leading and trailing whitespace stripped.
C29_StoredLetterSticksStripped ==
    [][/\ \A w \in Workers : Stepped(w) => InsertsWhateverDepth(w)
       /\ \A w \in Workers :
             \A r \in BagToSet(store) :
                (/\ Stepped(w) /\ BeginsLetter(w)
                 /\ r.user_id = proc'[w].uid
                 /\ r.week_start = proc'[w].last.period_start)
                => /\ proc'[w].pc = "done"
                   /\ proc'[w].resp.status = 200
                   /\ proc'[w].resp.content = Some(strip(r.content))
                   /\ store' = store
       /\ StaysUntilRegenerated]_vars

\* witness of C29: every gateway call of a get_or_create_letter request
\* failed, its shallow letter (the fixed fallback sentence) was stored, and
\* a later request for the key was answered with it from the cache
C29_Witness ==
    \E w \in Workers : \E a \in Workers \ {w} :
       /\ GeneratedAndStored(a)
       /\ proc[a].resp.analysis_depth = "shallow"
       /\ proc[a].resp.content = Some(INSIGHT_LETTER_FALLBACK)
       /\ FromCache(w)
       /\ SameKey(proc[w], proc[a])
       /\ proc[w].resp.content = Some(INSIGHT_LETTER_FALLBACK)

\* C30 as stated: when a force_regenerate request returns after its store
\* operations succeeded, the letter stored for its key is exactly the
\* content it returns, in every interleaving with other requests.
C30_ForcedLetterStored ==
    [][\A w \in Workers :
          (/\ Stepped(w)
           /\ proc[w].kind = "generate"
           /\ proc'[w].pc = "done"
           /\ proc'[w].inserted)
          => RowsOf(store', proc'[w].uid, proc'[w].last.period_start) =
                { Row(proc'[w].uid, proc'[w].last.period_start,
                      proc'[w].resp.content.v) }]_vars

====
